---- MODULE Spec2Model ----
(***************************************************************************)
(* A model of simplegcm (src/src/simplegcm/gcm.py): Message construction   *)
(* and body, Sender.send with the response reconciliation of               *)
(* Sender._parse_response, and the retry construction of                   *)
(* Result.get_retry_message / Message.build_retry_message.                 *)
(*                                                                         *)
(* Python values are modelled as tagged records so that values of          *)
(* different Python types can be stored in one field and compared:         *)
(*   scalars    [t, s, n]      None, str, int, bool                        *)
(*   JSON-ish   [t, s, l, d]   a scalar, a list of tokens, a dict          *)
(* A dict is a function whose DOMAIN is the set of its keys.               *)
(***************************************************************************)
EXTENDS Integers, Sequences, FiniteSets, TLC

VARIABLES
    message,        \* the caller's Message object (exists = FALSE: none yet)
    ctor_args,      \* the to / registration_ids of the last Message(...) call
    ctor_raised,    \* what the last Message(...) call raised ("none" if nothing)
    response,       \* the HTTP response the last send received
    outcome,        \* how the last Sender.send ended
    result,         \* the Result the last send returned (valid when outcome = "Result")
    retry_call,     \* which retry construction the caller used
    retry_outcome,  \* how the last retry construction ended
    retry_message   \* the Message the last retry construction returned

vars == <<message, ctor_args, ctor_raised, response, outcome, result,
          retry_call, retry_outcome, retry_message>>

----------------------------------------------------------------------------
(* Bounds of the model *)

\* longest registration_ids list the caller passes, and longest results array
MaxIds == 2

Tokens == {"a", "b"}

----------------------------------------------------------------------------
(* Python scalar values *)

PyNone == [t |-> "NoneType", s |-> "", n |-> 0]
PyStr(x) == [t |-> "str", s |-> x, n |-> 0]
PyInt(i) == [t |-> "int", s |-> "", n |-> i]
PyBool(b) == [t |-> "bool", s |-> "", n |-> IF b THEN 1 ELSE 0]

\* Python truthiness of a scalar: None, '', 0 and False are falsy
Truthy(v) ==
    CASE v.t = "NoneType" -> FALSE
      [] v.t = "str" -> v.s # ""
      [] OTHER -> v.n # 0

EmptyDict == [k \in {} |-> PyNone]

\* an optional list of tokens (registration_ids=None or a list)
NoneList == [isNone |-> TRUE, items |-> <<>>]
SomeList(l) == [isNone |-> FALSE, items |-> l]
\* truthiness of None / a list: a non-empty list
TruthyList(o) == ~o.isNone /\ Len(o.items) > 0

\* an optional dict or attribute-holding object (None, or its entries)
NoneDict == [isNone |-> TRUE, d |-> EmptyDict]
SomeDict(f) == [isNone |-> FALSE, d |-> f]

\* values of a payload dict: a scalar, a list of tokens, or a dict of scalars
JScalar(v) == [t |-> "scalar", s |-> v, l |-> <<>>, d |-> EmptyDict]
JList(l) == [t |-> "list", s |-> PyNone, l |-> l, d |-> EmptyDict]
JDict(f) == [t |-> "dict", s |-> PyNone, l |-> <<>>, d |-> f]

\* dict.update / item assignment: the entries of g override those of f
Update(f, g) == [k \in DOMAIN f \cup DOMAIN g |-> IF k \in DOMAIN g THEN g[k] ELSE f[k]]
SetItem(f, key, val) == [k \in DOMAIN f \cup {key} |-> IF k = key THEN val ELSE f[k]]

----------------------------------------------------------------------------
(* Notification and Options value objects *)

NotificationFields ==
    {"title", "body", "icon", "sound", "badge", "tag", "color", "click_action",
     "body_loc_key", "body_loc_args", "title_loc_key", "title_loc_args"}

OptionsFields ==
    {"collapse_key", "priority", "content_available", "delay_while_idle",
     "time_to_live", "delivery_receipt_requested", "dry_run",
     "restricted_package_name"}

\* Notification(**kw): every attribute is set, to None when not given
Notification(kw) == [f \in NotificationFields |-> IF f \in DOMAIN kw THEN kw[f] ELSE PyNone]

\* Options(**kw)
Options(kw) == [f \in OptionsFields |-> IF f \in DOMAIN kw THEN kw[f] ELSE PyNone]

\* InnerDictSerializeMixin.data: the attributes whose value is truthy
InnerData(attrs) == [k \in {f \in DOMAIN attrs : Truthy(attrs[f])} |-> attrs[k]]

----------------------------------------------------------------------------
(* Message *)

NoMessage ==
    [exists |-> FALSE, oid |-> 0, _to |-> PyNone, _registration_ids |-> NoneList,
     _data |-> NoneDict, _notif |-> NoneDict, _opt |-> NoneDict]

\* MessageInitRaises without the check that rejects both targets at once
MessageInitRaises_NoConflictCheck(to, registration_ids) ==
    IF ~(Truthy(to) \/ TruthyList(registration_ids)) THEN "ValueError"
    ELSE "none"

\* Message.__init__: the exception it raises, "none" when it constructs
MessageInitRaises(to, registration_ids) ==
    IF ~(Truthy(to) \/ TruthyList(registration_ids)) THEN "ValueError"
    ELSE IF Truthy(to) /\ TruthyList(registration_ids) THEN "ValueError"
    ELSE "none"

\* Message.__init__: the object it builds (oid is the object's identity)
MessageInit(oid, to, registration_ids, data, notification, options) ==
    [exists |-> TRUE,
     oid |-> oid,
     _to |-> to,
     _registration_ids |-> registration_ids,
     _data |-> IF ~data.isNone THEN data ELSE NoneDict,
     _notif |-> IF ~notification.isNone THEN SomeDict(Notification(notification.d)) ELSE NoneDict,
     _opt |-> IF ~options.isNone THEN SomeDict(Options(options.d)) ELSE NoneDict]

\* Message.body: the payload dict
MessageBody(m) ==
    LET p0 == EmptyDict
        p1 == IF Truthy(m._to) THEN SetItem(p0, "to", JScalar(m._to)) ELSE p0
        p2 == IF TruthyList(m._registration_ids)
              THEN SetItem(p1, "registration_ids", JList(m._registration_ids.items))
              ELSE p1
        \* a Notification / Options object is always truthy: only None is skipped
        p3 == IF ~m._notif.isNone
              THEN SetItem(p2, "notification", JDict(InnerData(m._notif.d)))
              ELSE p2
        od == InnerData(m._opt.d)
        p4 == IF ~m._opt.isNone
              THEN Update(p3, [k \in DOMAIN od |-> JScalar(od[k])])
              ELSE p3
        p5 == IF ~m._data.isNone /\ DOMAIN m._data.d # {}
              THEN SetItem(p4, "data", JDict(m._data.d))
              ELSE p4
    IN p5

\* Message.build_retry_message: what cls(**data) raises, "none" when it constructs
BuildRetryRaises(m, registration_ids) == MessageInitRaises(PyNone, registration_ids)

\* Message.build_retry_message: the new Message, built from the base message's
\* data and from the .data of its Notification and Options
BuildRetryMessage(oid, m, registration_ids) ==
    MessageInit(oid, PyNone, registration_ids,
                m._data,
                IF ~m._notif.isNone THEN SomeDict(InnerData(m._notif.d)) ELSE NoneDict,
                IF ~m._opt.isNone THEN SomeDict(InnerData(m._opt.d)) ELSE NoneDict)

----------------------------------------------------------------------------
(* HTTP response *)

\* requests.codes.BAD, requests.codes.UNAUTHORIZED, requests.codes.OK
CodeBad == 400
CodeUnauthorized == 401
CodeOk == 200
\* the 5xx family
ServerErrorLow == 500
ServerErrorHigh == 599

\* the decoded body: is_json = FALSE is a body response.json() cannot decode;
\* keys is the set of top-level keys of the decoded object
NoBody ==
    [is_json |-> FALSE, keys |-> {}, results |-> <<>>,
     multicast_id |-> PyNone, canonical_ids |-> PyNone]

NoResponse == [status_code |-> 0, headers |-> [k \in {} |-> ""], body |-> NoBody]

\* response.headers.get(name): the header's text, None when absent
HeadersGet(headers, name) == IF name \in DOMAIN headers THEN PyStr(headers[name]) ELSE PyNone

----------------------------------------------------------------------------
(* Result *)

NoResult ==
    [canonical_ids |-> JScalar(PyNone), multicast_id |-> PyNone,
     success |-> EmptyDict, failure |-> EmptyDict,
     unregistered |-> <<>>, unavailables |-> NoneList,
     message |-> NoMessage, backoff |-> PyNone,
     _raw_result |-> [isNone |-> TRUE, body |-> NoBody]]

\* Result.get_retry_message: with unavailables truthy it evaluates the name
\* `message`, which is bound neither in the method nor in the module, so the
\* call to build_retry_message is never made
GetRetryMessage(r) ==
    IF TruthyList(r.unavailables)
    THEN [raised |-> "NameError", returns |-> "nothing"]
    ELSE [raised |-> "none", returns |-> "None"]

----------------------------------------------------------------------------
(* Sender._parse_response *)

Min(a, b) == IF a < b THEN a ELSE b

EmptyAcc ==
    [raised |-> "none", success |-> EmptyDict, failure |-> EmptyDict,
     canonical_ids |-> EmptyDict, unregistered |-> <<>>, unavailables |-> <<>>]

\* ClassifyOne with 'InternalServerError' left out of the retryable codes
ClassifyOne_NoInternalServerError(acc, reg_id, resp) ==
    IF "message_id" \in DOMAIN resp
    THEN [acc EXCEPT
            !.success = SetItem(acc.success, reg_id, resp["message_id"]),
            !.canonical_ids =
                IF "registration_id" \in DOMAIN resp
                THEN SetItem(acc.canonical_ids, reg_id, resp["registration_id"])
                ELSE acc.canonical_ids]
    ELSE IF "error" \notin DOMAIN resp
    THEN [acc EXCEPT !.raised = "KeyError"]
    ELSE LET error == resp["error"] IN
         IF error \in {PyStr("Unavailable")}
         THEN [acc EXCEPT !.unavailables = Append(acc.unavailables, reg_id)]
         ELSE IF error = PyStr("NotRegistered")
         THEN [acc EXCEPT !.unregistered = Append(acc.unregistered, reg_id)]
         ELSE [acc EXCEPT !.failure = SetItem(acc.failure, reg_id, error)]

\* ClassifyOne raising the service exception for a permanent error code
ClassifyOne_RaiseOnOtherError(acc, reg_id, resp) ==
    IF "message_id" \in DOMAIN resp
    THEN [acc EXCEPT
            !.success = SetItem(acc.success, reg_id, resp["message_id"]),
            !.canonical_ids =
                IF "registration_id" \in DOMAIN resp
                THEN SetItem(acc.canonical_ids, reg_id, resp["registration_id"])
                ELSE acc.canonical_ids]
    ELSE IF "error" \notin DOMAIN resp
    THEN [acc EXCEPT !.raised = "KeyError"]
    ELSE LET error == resp["error"] IN
         IF error \in {PyStr("Unavailable"), PyStr("InternalServerError")}
         THEN [acc EXCEPT !.unavailables = Append(acc.unavailables, reg_id)]
         ELSE IF error = PyStr("NotRegistered")
         THEN [acc EXCEPT !.unregistered = Append(acc.unregistered, reg_id)]
         ELSE [acc EXCEPT !.raised = "GCMException"]

\* one iteration of the loop over zip(r_ids, results)
ClassifyOne(acc, reg_id, resp) ==
    IF "message_id" \in DOMAIN resp
    THEN [acc EXCEPT
            !.success = SetItem(acc.success, reg_id, resp["message_id"]),
            !.canonical_ids =
                IF "registration_id" \in DOMAIN resp
                THEN SetItem(acc.canonical_ids, reg_id, resp["registration_id"])
                ELSE acc.canonical_ids]
    ELSE IF "error" \notin DOMAIN resp
    THEN [acc EXCEPT !.raised = "KeyError"]
    ELSE LET error == resp["error"] IN
         IF error \in {PyStr("Unavailable"), PyStr("InternalServerError")}
         THEN [acc EXCEPT !.unavailables = Append(acc.unavailables, reg_id)]
         ELSE IF error = PyStr("NotRegistered")
         THEN [acc EXCEPT !.unregistered = Append(acc.unregistered, reg_id)]
         ELSE [acc EXCEPT !.failure = SetItem(acc.failure, reg_id, error)]

\* the loop: pairs 1..min(len(r_ids), len(results)), stopping at the first raise
RECURSIVE ClassifyLoop(_, _, _, _)
ClassifyLoop(r_ids, results, i, acc) ==
    IF i > Min(Len(r_ids), Len(results)) \/ acc.raised # "none"
    THEN acc
    ELSE ClassifyLoop(r_ids, results, i + 1, ClassifyOne(acc, r_ids[i], results[i]))

Raise(type, carries) == [raised |-> type, carries |-> carries, data |-> NoResult]

Return(data) == [raised |-> "none", carries |-> "", data |-> data]

\* StatusRaises without the check of 401
StatusRaises_No401(r_status) ==
    IF r_status = CodeBad THEN Raise("GCMException", "response.content")
    ELSE Raise("none", "")

\* the two fatal statuses, checked first: the exception raised, "none" otherwise
StatusRaises(r_status) ==
    IF r_status = CodeBad THEN Raise("GCMException", "response.content")
    ELSE IF r_status = CodeUnauthorized THEN Raise("GCMException", "Unauthorized API_KEY")
    ELSE Raise("none", "")

\* ServerErrorData that leaves unavailables empty
ServerErrorData_NoUnavailables(m, retry_after) ==
    [canonical_ids |-> JScalar(PyNone),
     multicast_id |-> PyNone,
     success |-> EmptyDict,
     failure |-> EmptyDict,
     unregistered |-> <<>>,
     unavailables |-> SomeList(<<>>),
     message |-> m,
     backoff |-> retry_after,
     _raw_result |-> [isNone |-> TRUE, body |-> NoBody]]

\* the 5xx branch: every registration id is set as unavailable
ServerErrorData(m, retry_after) ==
    [canonical_ids |-> JScalar(PyNone),
     multicast_id |-> PyNone,
     success |-> EmptyDict,
     failure |-> EmptyDict,
     unregistered |-> <<>>,
     unavailables |-> m._registration_ids,
     message |-> m,
     backoff |-> retry_after,
     _raw_result |-> [isNone |-> TRUE, body |-> NoBody]]

\* the 200 branch, in the order the code evaluates: response.json(),
\* resp_data['results'], zip(r_ids, ...), the loop, then the data dict with
\* resp_data['canonical_ids'] and resp_data['multicast_id']
OkData(m, resp_data, retry_after) ==
    IF ~resp_data.is_json THEN Raise("ValueError", "")
    ELSE IF "results" \notin resp_data.keys THEN Raise("KeyError", "results")
    ELSE IF m._registration_ids.isNone THEN Raise("TypeError", "")
    ELSE LET acc == ClassifyLoop(m._registration_ids.items, resp_data.results, 1, EmptyAcc) IN
         IF acc.raised # "none" THEN Raise(acc.raised, "error")
         ELSE IF "canonical_ids" \notin resp_data.keys THEN Raise("KeyError", "canonical_ids")
         ELSE IF "multicast_id" \notin resp_data.keys THEN Raise("KeyError", "multicast_id")
         ELSE Return([canonical_ids |-> JScalar(resp_data.canonical_ids),
                      multicast_id |-> resp_data.multicast_id,
                      success |-> acc.success,
                      failure |-> acc.failure,
                      unregistered |-> acc.unregistered,
                      unavailables |-> SomeList(acc.unavailables),
                      message |-> m,
                      backoff |-> retry_after,
                      _raw_result |-> [isNone |-> FALSE, body |-> resp_data]])

\* the exception _parse_response raises ("none": it returns), what the
\* exception carries, and the keyword arguments it returns for Result
ParseResponse(m, resp) ==
    LET r_status == resp.status_code
        fatal == StatusRaises(r_status)
        retry_after == HeadersGet(resp.headers, "Retry-After")
    IN
    IF fatal.raised # "none" THEN fatal
    ELSE IF r_status >= ServerErrorLow /\ r_status <= ServerErrorHigh
    THEN Return(ServerErrorData(m, retry_after))
    ELSE IF r_status = CodeOk
    THEN OkData(m, resp.body, retry_after)
    \* no branch binds `data`: `return data` fails
    ELSE Raise("UnboundLocalError", "")

----------------------------------------------------------------------------
(* Inputs the caller and the service supply *)

RECURSIVE SeqsUpTo(_, _)
SeqsUpTo(S, n) ==
    IF n = 0 THEN {<<>>}
    ELSE LET shorter == SeqsUpTo(S, n - 1)
         IN shorter \cup {Append(q, x) : q \in shorter, x \in S}

ToValues == {PyNone, PyStr(""), PyStr("/topics/news")}

RegistrationIdsValues == {NoneList} \cup {SomeList(l) : l \in SeqsUpTo(Tokens, MaxIds)}

\* data, notification and options as the caller passes them; they include
\* falsy values ('' , False, an empty dict)
Payloads ==
    {[data |-> NoneDict, notification |-> NoneDict, options |-> NoneDict],
     [data |-> SomeDict([k \in {"score"} |-> PyInt(5)]),
      notification |-> SomeDict([k \in {"title", "body"} |->
                                    IF k = "title" THEN PyStr("") ELSE PyStr("Body")]),
      options |-> SomeDict([k \in {"dry_run", "collapse_key"} |->
                               IF k = "dry_run" THEN PyBool(FALSE) ELSE PyStr("ck")])],
     [data |-> SomeDict(EmptyDict),
      notification |-> SomeDict([k \in {"title"} |-> PyStr("Title")]),
      options |-> SomeDict([k \in {"dry_run"} |-> PyBool(FALSE)])],
     [data |-> SomeDict([k \in {"score"} |-> PyInt(5)]),
      notification |-> NoneDict,
      options |-> SomeDict([k \in {"dry_run"} |-> PyBool(TRUE)])]}

\* entries of the results array
Entry(keys, mid, err) ==
    [k \in keys |->
        CASE k = "message_id" -> PyInt(mid)
          [] k = "error" -> PyStr(err)
          [] OTHER -> PyStr("newToken")]

Entries ==
    {Entry({"message_id"}, 100, ""),
     Entry({"message_id", "registration_id"}, 101, ""),
     Entry({"message_id", "error"}, 102, "Unavailable"),
     Entry({"error"}, 0, "Unavailable"),
     Entry({"error"}, 0, "InternalServerError"),
     Entry({"error"}, 0, "NotRegistered"),
     Entry({"error", "registration_id"}, 0, "InvalidRegistration"),
     Entry({}, 0, "")}

TopLevelKeys ==
    {{"results", "multicast_id", "canonical_ids"},
     {"results", "multicast_id"},
     {"results", "canonical_ids"},
     {"multicast_id", "canonical_ids"}}

\* the canonical_ids count of a body: the entries that carry a registration_id
RECURSIVE CountCanonical(_)
CountCanonical(results) ==
    IF results = <<>> THEN 0
    ELSE (IF "registration_id" \in DOMAIN Head(results) THEN 1 ELSE 0)
         + CountCanonical(Tail(results))

JsonBody(keys, results) ==
    [is_json |-> TRUE, keys |-> keys,
     results |-> IF "results" \in keys THEN results ELSE <<>>,
     multicast_id |-> IF "multicast_id" \in keys THEN PyInt(1) ELSE PyNone,
     canonical_ids |-> IF "canonical_ids" \in keys THEN PyInt(CountCanonical(results)) ELSE PyNone]

Bodies ==
    {NoBody} \cup {JsonBody(keys, results) : keys \in TopLevelKeys,
                                             results \in SeqsUpTo(Entries, MaxIds)}

\* bodies sent with a status other than 200, where the body is not decoded
OtherBodies == {NoBody, JsonBody({"results", "multicast_id", "canonical_ids"}, <<>>)}

StatusCodes == {200, 201, 204, 302, 400, 401, 403, 404, 499, 500, 501, 503, 599, 600}

HeadersValues == {[k \in {} |-> ""], [k \in {"Retry-After"} |-> "5"]}

Responses ==
    {[status_code |-> st, headers |-> h, body |-> b] :
        st \in {CodeOk}, h \in HeadersValues, b \in Bodies}
    \cup
    {[status_code |-> st, headers |-> h, body |-> b] :
        st \in StatusCodes \ {CodeOk}, h \in HeadersValues, b \in OtherBodies}

----------------------------------------------------------------------------
(* The state machine *)

NoArgs == [called |-> FALSE, to |-> PyNone, registration_ids |-> NoneList]
Args(to, registration_ids) == [called |-> TRUE, to |-> to, registration_ids |-> registration_ids]

Init ==
    /\ message = NoMessage
    /\ ctor_args = NoArgs
    /\ ctor_raised = "none"
    /\ response = NoResponse
    /\ outcome = "none"
    /\ result = NoResult
    /\ retry_call = "none"
    /\ retry_outcome = "none"
    /\ retry_message = NoMessage

\* the caller constructs its Message
NewMessage ==
    /\ ~message.exists
    /\ \E to \in ToValues, registration_ids \in RegistrationIdsValues, p \in Payloads :
          LET raised == MessageInitRaises(to, registration_ids) IN
          /\ ctor_args' = Args(to, registration_ids)
          /\ ctor_raised' = raised
          /\ message' = IF raised = "none"
                        THEN MessageInit(0, to, registration_ids,
                                         p.data, p.notification, p.options)
                        ELSE NoMessage
    /\ UNCHANGED <<response, outcome, result, retry_call, retry_outcome, retry_message>>

\* Sender(api_key=None).send(message)
SendNoApiKey ==
    /\ message.exists
    /\ outcome = "none"
    /\ outcome' = "ValueError"
    /\ UNCHANGED <<message, ctor_args, ctor_raised, response, result,
                   retry_call, retry_outcome, retry_message>>

\* Sender.send when requests.post raises: the exception is logged and re-raised
SendTransportFailure ==
    /\ message.exists
    /\ outcome = "none"
    /\ outcome' = "TransportError"
    /\ UNCHANGED <<message, ctor_args, ctor_raised, response, result,
                   retry_call, retry_outcome, retry_message>>

\* Sender.send when the service answers
SendResponse ==
    /\ message.exists
    /\ outcome = "none"
    /\ \E resp \in Responses :
          LET parsed == ParseResponse(message, resp) IN
          /\ response' = resp
          /\ outcome' = IF parsed.raised = "none" THEN "Result" ELSE parsed.raised
          /\ result' = parsed.data
    /\ UNCHANGED <<message, ctor_args, ctor_raised, retry_call, retry_outcome, retry_message>>

\* the caller calls result.get_retry_message()
CallGetRetryMessage ==
    /\ outcome = "Result"
    /\ retry_call = "none"
    /\ retry_call' = "get_retry_message"
    /\ LET got == GetRetryMessage(result) IN
          retry_outcome' = IF got.raised = "none" THEN got.returns ELSE got.raised
    /\ UNCHANGED <<message, ctor_args, ctor_raised, response, outcome, result, retry_message>>

\* the caller calls Message.build_retry_message(result.message, result.unavailables)
CallBuildRetryMessage ==
    /\ outcome = "Result"
    /\ retry_call = "none"
    /\ retry_call' = "build_retry_message"
    /\ LET raised == BuildRetryRaises(result.message, result.unavailables) IN
          /\ ctor_args' = Args(PyNone, result.unavailables)
          /\ ctor_raised' = raised
          /\ retry_outcome' = IF raised = "none" THEN "Message" ELSE raised
          /\ retry_message' = IF raised = "none"
                              THEN BuildRetryMessage(1, result.message, result.unavailables)
                              ELSE NoMessage
    /\ UNCHANGED <<message, response, outcome, result>>

\* the caller goes on with the retry message as its message
Resend ==
    /\ retry_outcome = "Message"
    /\ message' = [retry_message EXCEPT !.oid = 0]
    /\ response' = NoResponse
    /\ outcome' = "none"
    /\ result' = NoResult
    /\ retry_call' = "none"
    /\ retry_outcome' = "none"
    /\ retry_message' = NoMessage
    /\ UNCHANGED <<ctor_args, ctor_raised>>

Next ==
    \/ NewMessage
    \/ SendNoApiKey
    \/ SendTransportFailure
    \/ SendResponse
    \/ CallGetRetryMessage
    \/ CallBuildRetryMessage
    \/ Resend

Spec == Init /\ [][Next]_vars

----------------------------------------------------------------------------
(* Vocabulary of the properties *)

Range(q) == {q[i] : i \in 1..Len(q)}

Distinct(q) == \A i, j \in 1..Len(q) : i # j => q[i] # q[j]

\* the recipients the sent Message addresses, and the results array received
Ids == message._registration_ids.items
Results == response.body.results

AddressedByIds(m) == m.exists /\ TruthyList(m._registration_ids)

IsServerError(st) == st >= 500 /\ st <= 599

\* send returned a Result for a 200 / for a 5xx response
Returned200 == outcome = "Result" /\ response.status_code = 200
Returned5xx == outcome = "Result" /\ IsServerError(response.status_code)

HasMessageId(e) == "message_id" \in DOMAIN e
HasError(e) == "error" \in DOMAIN e
ErrorIn(e, codes) == ~HasMessageId(e) /\ HasError(e) /\ e["error"] \in {PyStr(c) : c \in codes}

RetryableCodes == {"Unavailable", "InternalServerError"}
IsUnavailableEntry(e) == ErrorIn(e, RetryableCodes)
IsUnregisteredEntry(e) == ErrorIn(e, {"NotRegistered"})
IsFailureEntry(e) == ~HasMessageId(e) /\ HasError(e) /\ ~IsUnavailableEntry(e) /\ ~IsUnregisteredEntry(e)

\* the recipients, in request order, whose result entry satisfies P
Pick(ids, results, P(_)) ==
    LET idx == SelectSeq([i \in 1..Len(ids) |-> i], LAMBDA i : P(results[i]))
    IN [k \in 1..Len(idx) |-> ids[idx[k]]]

----------------------------------------------------------------------------
(* C1 *)

\* C1: after a 200 response to a Message addressed by distinct registration
\* ids, with one result entry per recipient, the Result classifies recipient
\* i from results[i]: a message_id (with or without an error) gives
\* success[recipient] = message_id; else error Unavailable or
\* InternalServerError puts the recipient in unavailables; else NotRegistered
\* puts it in unregistered; else failure[recipient] = the code. unavailables
\* and unregistered list their recipients in request order.
C1_Classification ==
    (Returned200 /\ AddressedByIds(message) /\ Distinct(Ids) /\ Len(Results) = Len(Ids)) =>
        /\ \A i \in 1..Len(Ids) :
              LET e == Results[i]
                  r == Ids[i]
              IN IF HasMessageId(e)
                 THEN r \in DOMAIN result.success /\ result.success[r] = e["message_id"]
                 ELSE IF e["error"] \in {PyStr("Unavailable"), PyStr("InternalServerError")}
                 THEN r \in Range(result.unavailables.items)
                 ELSE IF e["error"] = PyStr("NotRegistered")
                 THEN r \in Range(result.unregistered)
                 ELSE r \in DOMAIN result.failure /\ result.failure[r] = e["error"]
        /\ result.unavailables.items = Pick(Ids, Results, IsUnavailableEntry)
        /\ result.unregistered = Pick(Ids, Results, IsUnregisteredEntry)

\* a 200 result for two distinct recipients: the first entry carries a
\* message_id and an error, the second the error InternalServerError
C1_Witness ==
    /\ Returned200
    /\ Len(Ids) = 2 /\ Ids[1] # Ids[2] /\ Len(Results) = 2
    /\ HasMessageId(Results[1]) /\ HasError(Results[1])
    /\ Results[2] = [k \in {"error"} |-> PyStr("InternalServerError")]
    /\ result.unavailables.items = <<Ids[2]>>

----------------------------------------------------------------------------
(* C2 *)

\* C2: get_retry_message() returns None exactly when unavailables is empty,
\* and with unavailables non-empty it returns a new Message whose
\* registration_ids are exactly the unavailable recipients.
C2_RetryMessage ==
    retry_call = "get_retry_message" =>
        /\ (retry_outcome = "None") <=> ~TruthyList(result.unavailables)
        /\ TruthyList(result.unavailables) =>
              /\ retry_outcome = "Message"
              /\ retry_message.exists
              /\ retry_message._registration_ids = result.unavailables

----------------------------------------------------------------------------
(* C3 *)

\* the number a Retry-After header text denotes
SecondsOf(text) == CASE text = "5" -> 5 [] OTHER -> 0

\* C3: for every 5xx response to a Message addressed by registration ids,
\* send returns a Result with every recipient in unavailables in request
\* order, success, failure and unregistered empty, multicast_id unset, and
\* backoff the number of seconds of the Retry-After header (unset without it).
C3_ServerError ==
    (response # NoResponse /\ IsServerError(response.status_code) /\ AddressedByIds(message)) =>
        /\ outcome = "Result"
        /\ result.unavailables = SomeList(Ids)
        /\ result.success = EmptyDict
        /\ result.failure = EmptyDict
        /\ result.unregistered = <<>>
        /\ result.multicast_id = PyNone
        /\ result.backoff =
              IF "Retry-After" \in DOMAIN response.headers
              THEN PyInt(SecondsOf(response.headers["Retry-After"]))
              ELSE PyNone

----------------------------------------------------------------------------
(* C4 *)

\* C4: a response with status 400 or 401 makes send raise GCMException and
\* produce no Result, whatever the message, the body and the headers.
C4_FatalStatus ==
    (response # NoResponse /\ response.status_code \in {400, 401}) =>
        /\ outcome = "GCMException"
        /\ result = NoResult

\* a 401 answer, with a decodable body and a Retry-After header, to a Message
\* addressed with 'to'
C4_Witness ==
    /\ response.status_code = 401
    /\ response.body.is_json
    /\ "Retry-After" \in DOMAIN response.headers
    /\ Truthy(message._to)
    /\ outcome = "GCMException"

----------------------------------------------------------------------------
(* C5 *)

\* C5: a response whose status is none of 200, 400, 401 and 500..599 makes
\* send raise GCMException and produce no Result.
C5_OtherStatus ==
    (/\ response # NoResponse
     /\ response.status_code \notin {200, 400, 401}
     /\ ~IsServerError(response.status_code)) =>
        /\ outcome = "GCMException"
        /\ result = NoResult

----------------------------------------------------------------------------
(* C6 *)

\* the Message has exactly one of 'to' and 'registration_ids' set (given a
\* non-empty value), and its body holds exactly that one of the two keys
ExactlyOneTarget(m) ==
    LET b == MessageBody(m) IN
    /\ Truthy(m._to) # TruthyList(m._registration_ids)
    /\ ("to" \in DOMAIN b) <=> Truthy(m._to)
    /\ ("registration_ids" \in DOMAIN b) <=> TruthyList(m._registration_ids)
    /\ Cardinality(DOMAIN b \cap {"to", "registration_ids"}) = 1

\* C6: every Message that exists, constructed directly or by
\* build_retry_message, has exactly one of 'to' and 'registration_ids' set and
\* exactly that key in its body; a construction with both or with neither
\* raises ValueError and yields no Message.
C6_OneTarget ==
    /\ \A m \in {message, retry_message, result.message} : m.exists => ExactlyOneTarget(m)
    /\ ctor_args.called =>
          /\ (ctor_raised = "ValueError")
                <=> (Truthy(ctor_args.to) = TruthyList(ctor_args.registration_ids))
          /\ ctor_raised = "ValueError" =>
                IF retry_call = "build_retry_message"
                THEN ~retry_message.exists
                ELSE ~message.exists

\* build_retry_message produced a Message for one of two original recipients
C6_Witness ==
    /\ retry_call = "build_retry_message"
    /\ retry_message.exists
    /\ Len(message._registration_ids.items) = 2
    /\ Len(retry_message._registration_ids.items) = 1
    /\ "registration_ids" \in DOMAIN MessageBody(retry_message)

----------------------------------------------------------------------------
(* C7 *)

\* the result entries that carry a message_id and a replacement registration_id
Replaced == {i \in 1..Min(Len(Ids), Len(Results)) :
                HasMessageId(Results[i]) /\ "registration_id" \in DOMAIN Results[i]}

\* C7: after a 200 response the Result's canonical_ids is a mapping old token
\* -> new token with an entry for exactly the recipients whose result entry
\* carries a message_id and a registration_id.
C7_CanonicalIds ==
    (Returned200 /\ AddressedByIds(message)) =>
        /\ result.canonical_ids.t = "dict"
        /\ DOMAIN result.canonical_ids.d = {Ids[i] : i \in Replaced}
        /\ \A i \in Replaced : result.canonical_ids.d[Ids[i]] = Results[i]["registration_id"]

----------------------------------------------------------------------------
(* C8 *)

\* success, failure, unregistered and unavailables partition the addressed
\* recipients
Partition(r, ids) ==
    LET S == DOMAIN r.success
        F == DOMAIN r.failure
        U == Range(r.unregistered)
        A == Range(r.unavailables.items)
    IN /\ Range(ids) = S \cup F \cup U \cup A
       /\ S \cap F = {} /\ S \cap U = {} /\ S \cap A = {}
       /\ F \cap U = {} /\ F \cap A = {} /\ U \cap A = {}

\* C8 as stated: for every Result of a send of a Message addressed by
\* registration ids (any tokens, repeated ones included, any results array)
\* the four classifications partition the addressed recipients.
C8_PartitionAlways ==
    (outcome = "Result" /\ AddressedByIds(message)) => Partition(result, Ids)

\* C8 amended: the partition holds for every Result of a 5xx response, and
\* for every Result of a 200 response when the tokens are pairwise distinct
\* and the results array has at least one entry per recipient.
C8_Partition ==
    (/\ outcome = "Result"
     /\ AddressedByIds(message)
     /\ \/ Returned5xx
        \/ Returned200 /\ Distinct(Ids) /\ Len(Results) >= Len(Ids)) =>
        Partition(result, Ids)

\* a 200 result that puts one of two distinct recipients in unavailables and
\* the other in failure
C8_Witness ==
    /\ Returned200
    /\ Len(Ids) = 2 /\ Ids[1] # Ids[2] /\ Len(Results) = 2
    /\ result.unavailables.items = <<Ids[1]>>
    /\ DOMAIN result.failure = {Ids[2]}

----------------------------------------------------------------------------
(* C9 *)

\* C9: when unavailables is the whole original recipient list,
\* get_retry_message() returns a Message that is another object than the
\* original and has the original's body, and the original is left as it was.
C9_RoundTrip ==
    (/\ retry_call = "get_retry_message"
     /\ TruthyList(result.unavailables)
     /\ result.unavailables = message._registration_ids) =>
        /\ retry_outcome = "Message"
        /\ retry_message.exists
        /\ retry_message.oid # message.oid
        /\ MessageBody(retry_message) = MessageBody(message)
        /\ MessageBody(message) = MessageBody(result.message)

----------------------------------------------------------------------------
(* C10 *)

\* a 200 response to a Message addressed by registration ids whose body has a
\* results array with one entry per recipient, each with a message id or an
\* error code
PartialFailureResponse ==
    /\ response.status_code = 200
    /\ AddressedByIds(message)
    /\ response.body.is_json
    /\ "results" \in response.body.keys
    /\ Len(Results) = Len(Ids)
    /\ \A i \in 1..Len(Results) : HasMessageId(Results[i]) \/ HasError(Results[i])

\* C10 as stated: such a response makes send return a Result and raise
\* nothing, with or without the top-level multicast_id and canonical_ids.
C10_NeverRaisesAnyBody ==
    PartialFailureResponse => outcome = "Result"

\* C10 amended: such a response makes send return a Result and raise nothing
\* when the body carries both multicast_id and canonical_ids.
C10_NeverRaises ==
    (PartialFailureResponse /\ {"multicast_id", "canonical_ids"} \subseteq response.body.keys) =>
        outcome = "Result"

\* a Result for two recipients, one reported NotRegistered and one with a
\* permanent error code
C10_Witness ==
    /\ PartialFailureResponse
    /\ outcome = "Result"
    /\ Len(Ids) = 2
    /\ Len(result.unregistered) = 1
    /\ Cardinality(DOMAIN result.failure) = 1

----------------------------------------------------------------------------
(* C11 *)

\* the Message is addressed with 'to' and carries no registration_ids
AddressedByTo(m) == m.exists /\ Truthy(m._to) /\ m._registration_ids.isNone

\* C11: for a Message addressed with 'to', send with a 200 response (decodable
\* body) or with a 5xx response does not raise and returns a Result whose
\* success, failure, unregistered and unavailables are all empty collections,
\* and get_retry_message() on that Result returns None.
C11_ToAddressed ==
    (/\ response # NoResponse
     /\ AddressedByTo(message)
     /\ \/ response.status_code = 200 /\ response.body.is_json
        \/ IsServerError(response.status_code)) =>
        /\ outcome = "Result"
        /\ result.success = EmptyDict
        /\ result.failure = EmptyDict
        /\ result.unregistered = <<>>
        /\ result.unavailables = SomeList(<<>>)
        /\ retry_call = "get_retry_message" => retry_outcome = "None"

====
